---------------------------- MODULE Spec2Model ----------------------------
(***************************************************************************)
(* Verification model of the location section schema of yamlresume:        *)
(*   packages/core/src/models/schema/content/location.ts  (locationSchema) *)
(*   packages/core/src/models/types.ts                    (LocationItem)   *)
(*                                                                         *)
(* A candidate document is a JavaScript value.  A validation call walks    *)
(* the shape of locationSchema key by key, collects the issues each field  *)
(* schema raises, builds the output object from the declared keys, and     *)
(* finishes with either a success carrying the output or a failure         *)
(* carrying all the issues.                                                *)
(***************************************************************************)
EXTENDS Integers, Sequences, FiniteSets, TLC

(***************************************************************************)
(* Bounds of the model.                                                    *)
(***************************************************************************)
\* how far below/above each length bound the candidate strings reach
Slack == 1
\* number of validation calls that may be in flight together
NumProcs == 2
\* longest section array of a constructed resume
MaxItems == 2
\* number of transform passes run on one resume
MaxPasses == 2

Procs == 1..NumProcs

(***************************************************************************)
(* JavaScript values.                                                      *)
(***************************************************************************)
Undefined == [type |-> "undefined"]
Str(s) == [type |-> "string", str |-> s]
Num(n) == [type |-> "number", num |-> n]
Obj(f) == [type |-> "object", props |-> f]

\* an object with no own property
EmptyProps == [k \in {} |-> Undefined]

\* property read: a missing key reads as undefined
Get(o, k) == IF k \in DOMAIN o.props THEN o.props[k] ELSE Undefined

\* a string of n characters
RECURSIVE Rep(_)
Rep(n) ==
  IF n = 0 THEN ""
  ELSE LET h == Rep(n \div 2)
       IN  IF n % 2 = 0 THEN h \o h ELSE (h \o h) \o "a"

(***************************************************************************)
(* Primitive validators (packages/core/src/models/schema/primitives).      *)
(* A validator maps a value to the sequence of issues it raises; the       *)
(* issue paths are relative to the validated value.                        *)
(***************************************************************************)
\* the fixed country/region option set; "DE" is a member
COUNTRY_OPTIONS == {"DE", "FR"}

sizedStringSchema(name, min, max, v) ==
  IF v = Undefined
    THEN << [path |-> <<>>, kind |-> "missing-required-field", name |-> name] >>
  ELSE IF v.type # "string"
    THEN << [path |-> <<>>, kind |-> "invalid-type", name |-> name] >>
  ELSE IF Len(v.str) < min
    THEN << [path |-> <<>>, kind |-> "length-violation", name |-> name,
             bound |-> "min", limit |-> min] >>
  ELSE IF Len(v.str) > max
    THEN << [path |-> <<>>, kind |-> "length-violation", name |-> name,
             bound |-> "max", limit |-> max] >>
  ELSE << >>

countryOptionSchema(v) ==
  IF v.type = "string" /\ v.str \in COUNTRY_OPTIONS
    THEN << >>
    ELSE << [path |-> <<>>, kind |-> "invalid-choice", name |-> "country"] >>


(***************************************************************************)
(* locationSchema (location.ts).                                           *)
(***************************************************************************)
\* city: sizedStringSchema('city', 2, 64)
cityField_LooseMax ==
  [key |-> "city", schema |-> "sizedString", name |-> "city",
   min |-> 2, max |-> 65, optional |-> FALSE]

cityField_Optional ==
  [key |-> "city", schema |-> "sizedString", name |-> "city",
   min |-> 2, max |-> 64, optional |-> TRUE]

cityField ==
  [key |-> "city", schema |-> "sizedString", name |-> "city",
   min |-> 2, max |-> 64, optional |-> FALSE]

\* address: sizedStringSchema('address', 4, 256).optional()
addressField_Required ==
  [key |-> "address", schema |-> "sizedString", name |-> "address",
   min |-> 4, max |-> 256, optional |-> FALSE]

addressField ==
  [key |-> "address", schema |-> "sizedString", name |-> "address",
   min |-> 4, max |-> 256, optional |-> TRUE]

\* country: countryOptionSchema.optional()
countryField_AsSizedString ==
  [key |-> "country", schema |-> "sizedString", name |-> "country",
   min |-> 2, max |-> 64, optional |-> TRUE]

countryField ==
  [key |-> "country", schema |-> "countryOption", optional |-> TRUE]

\* postalCode: sizedStringSchema('postalCode', 2, 16).optional()
postalCodeField_TightMax ==
  [key |-> "postalCode", schema |-> "sizedString", name |-> "postalCode",
   min |-> 2, max |-> 15, optional |-> TRUE]

postalCodeField ==
  [key |-> "postalCode", schema |-> "sizedString", name |-> "postalCode",
   min |-> 2, max |-> 16, optional |-> TRUE]

\* region: sizedStringSchema('region', 2, 64).optional()
regionField ==
  [key |-> "region", schema |-> "sizedString", name |-> "region",
   min |-> 2, max |-> 64, optional |-> TRUE]

\* the shape of the inner z.object, in declaration order
locationItemShape ==
  << cityField, addressField, countryField, postalCodeField, regionField >>

\* the outer z.object has the single key location, and it is optional
locationOptional_Dropped == FALSE

locationOptional == TRUE

NumFields == Len(locationItemShape)
ShapeKeys == {locationItemShape[i].key : i \in 1..NumFields}
ShapeOf(k) == locationItemShape[CHOOSE i \in 1..NumFields : locationItemShape[i].key = k]

\* the issues the schema of one declared field raises on the value v
FieldIssues(f, v) ==
  IF f.optional /\ v.type = "undefined" THEN << >>
  ELSE IF f.schema = "sizedString" THEN sizedStringSchema(f.name, f.min, f.max, v)
  ELSE countryOptionSchema(v)

\* the inner z.object is neither strict nor has a catchall: keys that the
\* shape does not declare raise nothing (and are not copied to the output)
UnrecognizedKeys_Strict(props) == DOMAIN props \ ShapeKeys

UnrecognizedKeys(props) == {}

PrefixIssues(key, iss) ==
  [i \in DOMAIN iss |-> [iss[i] EXCEPT !.path = <<key>> \o @]]

SetProp(props, k, v) ==
  [x \in DOMAIN props \cup {k} |-> IF x = k THEN v ELSE props[x]]

\* a fresh payload of one parse of an object
NewPayload == [issues |-> << >>, value |-> EmptyProps]

\* (variant: stops collecting at the first issue)
handlePropertyResult_ShortCircuit(payload, f, loc) ==
  LET v   == Get(loc, f.key)
      iss == IF payload.issues = << >> THEN FieldIssues(f, v) ELSE << >>
  IN  [issues |-> payload.issues \o PrefixIssues(f.key, iss),
       value  |-> IF v.type = "undefined"
                    THEN IF f.key \in DOMAIN loc.props
                           THEN SetProp(payload.value, f.key, Undefined)
                           ELSE payload.value
                    ELSE SetProp(payload.value, f.key, v)]

\* (variant: the value of the field is not copied to the output)
handlePropertyResult_DropsValue(payload, f, loc) ==
  LET v   == Get(loc, f.key)
      iss == FieldIssues(f, v)
  IN  [issues |-> payload.issues \o PrefixIssues(f.key, iss),
       value  |-> payload.value]

\* the object parser's step for one declared key: the field's issues are
\* appended under the key, whatever was raised before, and the field's value
\* is copied to the output (an undefined value only when the input has the key)
handlePropertyResult(payload, f, loc) ==
  LET v   == Get(loc, f.key)
      iss == FieldIssues(f, v)
  IN  [issues |-> payload.issues \o PrefixIssues(f.key, iss),
       value  |-> IF v.type = "undefined"
                    THEN IF f.key \in DOMAIN loc.props
                           THEN SetProp(payload.value, f.key, Undefined)
                           ELSE payload.value
                    ELSE SetProp(payload.value, f.key, v)]

\* the issues of the keys the shape does not declare
UnrecognizedIssues(loc) ==
  IF UnrecognizedKeys(loc.props) = {} THEN << >>
  ELSE << [path |-> <<>>, kind |-> "unrecognized-keys",
           keys |-> UnrecognizedKeys(loc.props)] >>

\* the result of a parse, from the candidate and the inner payload
NoResult == [status |-> "none"]

ParseResult(doc, payload) ==
  LET loc == Get(doc, "location")
      iss == IF loc.type = "undefined"
               THEN IF locationOptional THEN << >>
                    ELSE << [path |-> <<"location">>,
                             kind |-> "missing-required-field", name |-> "location"] >>
             ELSE IF loc.type # "object"
               THEN << [path |-> <<"location">>, kind |-> "invalid-type",
                        name |-> "location"] >>
             ELSE PrefixIssues("location", payload.issues \o UnrecognizedIssues(loc))
      data == IF loc.type = "object"
                THEN Obj([location |-> Obj(payload.value)])
              ELSE IF "location" \in DOMAIN doc.props
                THEN Obj([location |-> Undefined])
                ELSE Obj(EmptyProps)
  IN  IF iss = << >>
        THEN [status |-> "success", data |-> data]
        ELSE [status |-> "failure", issues |-> iss]

\* locationSchema.safeParse(doc) as one synchronous call
RECURSIVE ParseKeys(_, _, _)
ParseKeys(loc, i, payload) ==
  IF i > NumFields THEN payload
  ELSE ParseKeys(loc, i + 1, handlePropertyResult(payload, locationItemShape[i], loc))

safeParse(doc) ==
  LET loc == Get(doc, "location")
  IN  ParseResult(doc, IF loc.type = "object"
                         THEN ParseKeys(loc, 1, NewPayload)
                         ELSE NewPayload)

(***************************************************************************)
(* Candidate documents handed to the schema by a caller.                   *)
(***************************************************************************)
\* the key is not written in the candidate
Missing == [type |-> "missing"]

\* strings whose lengths lie around the two bounds of a sized field
StringsAround(min, max) ==
  {Str(Rep(n)) : n \in {m \in ((min - Slack)..(min + Slack - 1))
                              \cup ((max - Slack + 1)..(max + Slack)) : m >= 0}}

\* a computed sub-object as the transform stage attaches it (LocationItem.computed)
ComputedValue ==
  Obj([postalCodeAndAddress |-> Str("10115 Unter den Linden 1"),
       regionAndCountry |-> Str("Berlin, DE"),
       fullAddress |-> Str("Unter den Linden 1, 10115 Berlin, DE")])

FieldChoices ==
  [city       : StringsAround(2, 64) \cup {Missing, Undefined, Num(42), Str("Berlin")},
   address    : StringsAround(4, 256) \cup {Missing, Undefined, Num(42), Str("123")},
   country    : {Missing, Str("DE"), Str("FR"), Str("de"), Str("Atlantis"), Num(42)},
   postalCode : StringsAround(2, 16) \cup {Missing, Num(42)},
   region     : StringsAround(2, 64) \cup {Missing, Num(42)},
   computed   : {Missing, ComputedValue, Num(42)}]

ItemKeys == {"city", "address", "country", "postalCode", "region", "computed"}

\* the object literal of a choice: only the written keys are own properties
MkProps(c) == [k \in {x \in ItemKeys : c[x].type # "missing"} |-> c[k]]

LocationCandidates == {Obj(MkProps(c)) : c \in FieldChoices}

Candidates ==
  {Obj(EmptyProps), Obj([location |-> Undefined]), Obj([location |-> Str("Berlin")])}
    \cup {Obj([location |-> l]) : l \in LocationCandidates}

\* the candidates of the concurrent calls
ConcCandidates ==
  { Obj(EmptyProps),
    Obj([location |-> Obj([city |-> Str("Berlin"), country |-> Str("DE")])]),
    Obj([location |-> Obj([city |-> Str("B")])]),
    Obj([location |-> Obj([address |-> Str("123")])]),
    Obj([location |-> Obj([city |-> Str("Berlin"), country |-> Str("Atlantis"),
                           computed |-> ComputedValue])]) }

(***************************************************************************)
(* State: one record per validation call in flight.                        *)
(***************************************************************************)
VARIABLES
  pc,       \* pc[p]: "idle", "location", "fields", "finish", "done"
  input,    \* input[p]: the candidate document of the call
  idx,      \* idx[p]: the next declared key of the inner object to parse
  payload,  \* payload[p]: the issues and the output value collected so far
  result,   \* result[p]: what safeParse returned
  prev      \* prev[p]: the result whose data is being validated again

\* State of the resume value the transform stage works on.
VARIABLES
  resume,   \* the Resume value in memory, undefined until it is constructed
  passes    \* number of transform passes run on it

resumeVars == <<resume, passes>>

vars == <<pc, input, idx, payload, result, prev, resume, passes>>

Init ==
  /\ pc = [p \in Procs |-> "idle"]
  /\ input = [p \in Procs |-> Undefined]
  /\ idx = [p \in Procs |-> 1]
  /\ payload = [p \in Procs |-> NewPayload]
  /\ result = [p \in Procs |-> NoResult]
  /\ prev = [p \in Procs |-> NoResult]
  /\ resume = Undefined
  /\ passes = 0

\* (variant: one payload shared by all calls)
StorePayload_Shared(all, p, new) == [q \in DOMAIN all |-> new]

\* every call owns its payload
StorePayload(all, p, new) == [all EXCEPT ![p] = new]

\* a caller calls locationSchema.safeParse(doc) with one of the candidates docs
Begin(p, docs) ==
  /\ pc[p] = "idle"
  /\ \E doc \in docs : input' = [input EXCEPT ![p] = doc]
  /\ payload' = StorePayload(payload, p, NewPayload)
  /\ idx' = [idx EXCEPT ![p] = 1]
  /\ result' = [result EXCEPT ![p] = NoResult]
  /\ prev' = [prev EXCEPT ![p] = NoResult]
  /\ pc' = [pc EXCEPT ![p] = "location"]
  /\ UNCHANGED resumeVars

\* the outer object reads its key location: an undefined or non-object value
\* ends the walk, an object is parsed key by key
EnterLocation(p) ==
  /\ pc[p] = "location"
  /\ pc' = [pc EXCEPT ![p] =
              IF Get(input[p], "location").type = "object" THEN "fields" ELSE "finish"]
  /\ UNCHANGED <<input, idx, payload, result, prev, resume, passes>>

\* the inner object parses its next declared key
ParseField(p) ==
  /\ pc[p] = "fields"
  /\ idx[p] <= NumFields
  /\ payload' = StorePayload(payload, p,
                   handlePropertyResult(payload[p], locationItemShape[idx[p]],
                                        Get(input[p], "location")))
  /\ idx' = [idx EXCEPT ![p] = @ + 1]
  /\ pc' = [pc EXCEPT ![p] = IF idx[p] = NumFields THEN "finish" ELSE "fields"]
  /\ UNCHANGED <<input, result, prev, resume, passes>>

\* safeParse returns
Finish(p) ==
  /\ pc[p] = "finish"
  /\ result' = [result EXCEPT ![p] = ParseResult(input[p], payload[p])]
  /\ pc' = [pc EXCEPT ![p] = "done"]
  /\ UNCHANGED <<input, idx, payload, prev, resume, passes>>

\* the caller validates the data of a success again, unchanged
Revalidate(p) ==
  /\ pc[p] = "done"
  /\ result[p].status = "success"
  /\ prev[p].status = "none"
  /\ input' = [input EXCEPT ![p] = result[p].data]
  /\ prev' = [prev EXCEPT ![p] = result[p]]
  /\ payload' = StorePayload(payload, p, NewPayload)
  /\ idx' = [idx EXCEPT ![p] = 1]
  /\ result' = [result EXCEPT ![p] = NoResult]
  /\ pc' = [pc EXCEPT ![p] = "location"]
  /\ UNCHANGED resumeVars

\* one caller, every candidate
Next ==
  \/ Begin(1, Candidates)
  \/ EnterLocation(1)
  \/ ParseField(1)
  \/ Finish(1)
  \/ Revalidate(1)

Spec == Init /\ [][Next]_vars

\* several callers at once, their calls interleaved key by key
NextConc ==
  \E p \in Procs :
    \/ Begin(p, ConcCandidates)
    \/ EnterLocation(p)
    \/ ParseField(p)
    \/ Finish(p)
    \/ Revalidate(p)

SpecConc == Init /\ [][NextConc]_vars

TypeOK ==
  /\ pc \in [Procs -> {"idle", "location", "fields", "finish", "done"}]
  /\ idx \in [Procs -> 1..(NumFields + 1)]
  /\ \A p \in Procs : result[p].status \in {"none", "success", "failure"}

(***************************************************************************)
(* Properties.                                                             *)
(***************************************************************************)
Done(p) == pc[p] = "done"
Loc(p) == Get(input[p], "location")
LocPresent(p) == Done(p) /\ Loc(p).type = "object"
Failed(p) == result[p].status = "failure"
Succeeded(p) == result[p].status = "success"

\* the reported issues of a finished call
Reported(p) == IF Failed(p) THEN result[p].issues ELSE << >>
ReportedAt(p, k) ==
  {i \in DOMAIN Reported(p) : Reported(p)[i].path = <<"location", k>>}
ReportsKind(p, k, kind) ==
  \E i \in ReportedAt(p, k) : Reported(p)[i].kind = kind

\* the published constraint table of the location section
BoundedFields ==
  [city |-> [min |-> 2, max |-> 64], address |-> [min |-> 4, max |-> 256],
   postalCode |-> [min |-> 2, max |-> 16], region |-> [min |-> 2, max |-> 64]]

IsString(v) == v.type = "string"
InBounds(k, v) ==
  IsString(v) /\ Len(v.str) >= BoundedFields[k].min /\ Len(v.str) <= BoundedFields[k].max
OutOfBounds(k, v) ==
  IsString(v) /\ (Len(v.str) < BoundedFields[k].min \/ Len(v.str) > BoundedFields[k].max)

\* C1: when a present location carries, for a bounded field (city 2..64,
\* address 4..256, postalCode 2..16, region 2..64), a string shorter than the
\* minimum or longer than the maximum, validation fails and reports a
\* length-violation that names that field.
C1_OutOfBoundsRejected ==
  \A p \in Procs : LocPresent(p) =>
    \A k \in DOMAIN BoundedFields :
      OutOfBounds(k, Get(Loc(p), k)) =>
        /\ Failed(p)
        /\ \E i \in ReportedAt(p, k) :
             /\ Reported(p)[i].kind = "length-violation"
             /\ Reported(p)[i].name = k

C1_Witness ==
  /\ LocPresent(1)
  /\ IsString(Get(Loc(1), "city")) /\ Len(Get(Loc(1), "city").str) = 1
  /\ IsString(Get(Loc(1), "address")) /\ Len(Get(Loc(1), "address").str) = 257
  /\ ReportsKind(1, "city", "length-violation")
  /\ ReportsKind(1, "address", "length-violation")

\* C2: a string within the bounds of its field raises no issue for that field,
\* and a location whose only supplied field is a city of 2..64 characters
\* validates successfully.
C2_InBoundsAccepted ==
  \A p \in Procs : LocPresent(p) =>
    /\ \A k \in DOMAIN BoundedFields :
         InBounds(k, Get(Loc(p), k)) => ReportedAt(p, k) = {}
    /\ (DOMAIN Loc(p).props = {"city"} /\ InBounds("city", Get(Loc(p), "city")))
         => Succeeded(p)

C2_Witness ==
  /\ LocPresent(1)
  /\ DOMAIN Loc(1).props = {"city"}
  /\ IsString(Get(Loc(1), "city")) /\ Len(Get(Loc(1), "city").str) = 64
  /\ Succeeded(1)

\* C3: with a valid city, a supplied country that is not in the country/region
\* option set fails validation with an invalid-choice for country, a country
\* in the set raises nothing, and { location: { city: "Berlin", country: "DE" } }
\* validates successfully.
CountrySupplied(p) ==
  /\ LocPresent(p)
  /\ InBounds("city", Get(Loc(p), "city"))
  /\ "country" \in DOMAIN Loc(p).props

IsCountryOption(v) == IsString(v) /\ v.str \in COUNTRY_OPTIONS

C3_CountryChoice ==
  \A p \in Procs : CountrySupplied(p) =>
    /\ ~IsCountryOption(Get(Loc(p), "country")) =>
         Failed(p) /\ ReportsKind(p, "country", "invalid-choice")
    /\ IsCountryOption(Get(Loc(p), "country")) => ReportedAt(p, "country") = {}
    /\ Loc(p) = Obj([city |-> Str("Berlin"), country |-> Str("DE")]) => Succeeded(p)

C3_Witness ==
  /\ Done(1)
  /\ input[1] = Obj([location |-> Obj([city |-> Str("Berlin"), country |-> Str("DE")])])
  /\ Succeeded(1)

\* C4: a candidate whose location is absent or undefined is accepted.
C4_AbsentLocationAccepted ==
  \A p \in Procs :
    (Done(p) /\ Loc(p).type = "undefined") => Succeeded(p)

C4_Witness ==
  /\ Done(1)
  /\ "location" \notin DOMAIN input[1].props
  /\ Succeeded(1)

\* C5: when the location object is present and city is omitted, validation
\* fails with a missing-required-field for city, whatever the other fields are.
C5_MissingCity ==
  \A p \in Procs :
    (LocPresent(p) /\ "city" \notin DOMAIN Loc(p).props) =>
      Failed(p) /\ ReportsKind(p, "city", "missing-required-field")

C5_Witness ==
  /\ LocPresent(1)
  /\ "city" \notin DOMAIN Loc(1).props
  /\ IsCountryOption(Get(Loc(1), "country"))
  /\ InBounds("address", Get(Loc(1), "address"))
  /\ ReportsKind(1, "city", "missing-required-field")
  /\ Len(Reported(1)) = 1

\* whether the value of a declared field violates its published constraint
Violates(k, v) ==
  IF k = "city" THEN ~InBounds(k, v)
  ELSE IF v.type = "undefined" THEN FALSE
  ELSE IF k = "country" THEN ~IsCountryOption(v)
  ELSE ~InBounds(k, v)

DeclaredFields == {"city", "address", "country", "postalCode", "region"}

\* C6: validation does not stop at the first failure: the reported list has
\* exactly one entry for every declared field that violates its constraint
\* and none for a field that satisfies it; { location: { address: "123" } }
\* fails with a missing-required-field for city and a length-violation for
\* address.
C6_AllViolationsReported ==
  \A p \in Procs : LocPresent(p) =>
    /\ \A k \in DeclaredFields :
         Cardinality(ReportedAt(p, k)) = IF Violates(k, Get(Loc(p), k)) THEN 1 ELSE 0
    /\ Loc(p) = Obj([address |-> Str("123")]) =>
         /\ ReportsKind(p, "city", "missing-required-field")
         /\ ReportsKind(p, "address", "length-violation")

C6_Witness ==
  /\ Done(1)
  /\ input[1] = Obj([location |-> Obj([address |-> Str("123")])])
  /\ Failed(1)
  /\ Len(result[1].issues) = 2
  /\ ReportsKind(1, "city", "missing-required-field")
  /\ ReportsKind(1, "address", "length-violation")

\* C7: validating the data of a success again, unchanged, succeeds and
\* returns an object equal to the first result.
C7_Idempotent ==
  \A p \in Procs :
    (Done(p) /\ prev[p].status = "success") =>
      /\ Succeeded(p)
      /\ result[p].data = prev[p].data

C7_Witness ==
  /\ Done(1)
  /\ prev[1].status = "success"
  /\ Succeeded(1)
  /\ Loc(1).type = "object"
  /\ DOMAIN Loc(1).props = DeclaredFields
  /\ result[1].data = input[1]

\* C8: a call never changes its input, and under every interleaving of
\* concurrent calls each call returns the result it returns when run alone.
C8_Isolated ==
  /\ [](\A p \in Procs : Done(p) => result[p] = safeParse(input[p]))
  /\ [][\A p \in Procs :
          (pc[p] \in {"location", "fields", "finish"}) => input'[p] = input[p]]_vars

C8_Witness ==
  /\ Done(1) /\ Failed(1)
  /\ Loc(1) = Obj([address |-> Str("123")])
  /\ pc[2] = "fields" /\ idx[2] = 3
  /\ Get(Loc(2), "country") = Str("DE")

\* C9: a computed sub-object is never required: accept/reject and the
\* reported issues are those of the same location without computed, and a
\* location without computed is accepted when its declared fields satisfy
\* their constraints.
WithoutComputed(doc) ==
  LET loc == Get(doc, "location")
  IN  Obj([location |-> Obj([k \in DOMAIN loc.props \ {"computed"} |-> loc.props[k]])])

IssuesOf(r) == IF r.status = "failure" THEN r.issues ELSE << >>

C9_ComputedNotRequired ==
  \A p \in Procs : LocPresent(p) =>
    /\ result[p].status = safeParse(WithoutComputed(input[p])).status
    /\ Reported(p) = IssuesOf(safeParse(WithoutComputed(input[p])))
    /\ ("computed" \notin DOMAIN Loc(p).props
          /\ \A k \in DeclaredFields : ~Violates(k, Get(Loc(p), k)))
         => Succeeded(p)

C9_Witness ==
  /\ LocPresent(1)
  /\ Get(Loc(1), "computed") = ComputedValue
  /\ IsCountryOption(Get(Loc(1), "country"))
  /\ Succeeded(1)

\* the fields of the LocationItem type (types.ts) and whether each is required
LocationItem ==
  [city |-> "required", address |-> "optional", country |-> "optional",
   postalCode |-> "optional", region |-> "optional", computed |-> "optional"]

SchemaStatus(k) == IF ShapeOf(k).optional THEN "optional" ELSE "required"

\* whether a value has the type LocationItem gives to the field
HasFieldType(k, v) ==
  IF k = "country" THEN IsCountryOption(v)
  ELSE IF k = "computed" THEN v.type = "object"
  ELSE IsString(v)

\* C10 as stated: every schema field is a LocationItem field of the same
\* required/optional status, and every LocationItem field is validated by the
\* schema, so no accepted location carries an ill-typed LocationItem field.
C10_Original ==
  /\ \A k \in ShapeKeys : k \in DOMAIN LocationItem /\ LocationItem[k] = SchemaStatus(k)
  /\ \A k \in DOMAIN LocationItem : k \in ShapeKeys
  /\ \A p \in Procs : (LocPresent(p) /\ Succeeded(p)) =>
       \A k \in DOMAIN LocationItem \cap DOMAIN Loc(p).props :
         Get(Loc(p), k).type = "undefined" \/ HasFieldType(k, Get(Loc(p), k))

\* C10 (amended): every schema field is a LocationItem field of the same
\* required/optional status, and every LocationItem field other than computed
\* is a schema field; the data of a success carries the required fields, only
\* schema fields, and each with the type LocationItem gives it.
Data(p) == Get(result[p].data, "location")

C10_SchemaTypeInSync ==
  /\ \A k \in ShapeKeys : k \in DOMAIN LocationItem /\ LocationItem[k] = SchemaStatus(k)
  /\ \A k \in DOMAIN LocationItem \ {"computed"} : k \in ShapeKeys
  /\ \A p \in Procs : (LocPresent(p) /\ Succeeded(p)) =>
       /\ DOMAIN Data(p).props \subseteq DOMAIN LocationItem \ {"computed"}
       /\ \A k \in DOMAIN LocationItem :
            LocationItem[k] = "required" => k \in DOMAIN Data(p).props
       /\ \A k \in DOMAIN Data(p).props :
            \/ (LocationItem[k] = "optional" /\ Data(p).props[k].type = "undefined")
            \/ HasFieldType(k, Data(p).props[k])

C10_Witness ==
  /\ LocPresent(1) /\ Succeeded(1)
  /\ Get(Loc(1), "computed") = Num(42)
  /\ DOMAIN Data(1).props = DeclaredFields

(***************************************************************************)
(* The resume data model (types.ts).  A type is given by its fields with   *)
(* the name of the type of each, the set of its optional fields, and the   *)
(* keys of its computed sub-object.                                        *)
(***************************************************************************)
\* the option-set union types
OptionSetTypes ==
  {"Country", "Degree", "Fluency", "Language", "Level", "SectionID",
   "TemplateOption", "LocaleLanguageOption", "Network", "FontspecNumbers",
   "FontSize"}

\* type ResumeTemplate = TemplateOption; type Keywords = string[]
TypeAlias == [ResumeTemplate |-> "TemplateOption", Keywords |-> "string[]"]

Resolve(t) == IF t \in DOMAIN TypeAlias THEN TypeAlias[t] ELSE t

AwardItem ==
  [fields   |-> [awarder |-> "string", title |-> "string", date |-> "string",
                 summary |-> "string"],
   optional |-> {"date", "summary"},
   computed |-> {"date", "summary"}]

BasicsItem ==
  [fields   |-> [name |-> "string", email |-> "string", headline |-> "string",
                 phone |-> "string", summary |-> "string", url |-> "string"],
   optional |-> {"email", "headline", "phone", "summary", "url"},
   computed |-> {"summary", "url"}]

CertificateItem ==
  [fields   |-> [issuer |-> "string", name |-> "string", date |-> "string",
                 url |-> "string"],
   optional |-> {"date", "url"},
   computed |-> {"date"}]

EducationItem ==
  [fields   |-> [area |-> "string", institution |-> "string",
                 startDate |-> "string", degree |-> "Degree",
                 courses |-> "string[]", endDate |-> "string",
                 summary |-> "string", score |-> "string", url |-> "string"],
   optional |-> {"courses", "endDate", "summary", "score", "url"},
   computed |-> {"courses", "degreeAreaAndScore", "dateRange", "startDate",
                 "endDate", "summary"}]

InterestItem ==
  [fields   |-> [name |-> "string", keywords |-> "Keywords"],
   optional |-> {"keywords"},
   computed |-> {"keywords"}]

LanguageItem ==
  [fields   |-> [fluency |-> "Fluency", language |-> "Language",
                 keywords |-> "Keywords"],
   optional |-> {"keywords"},
   computed |-> {"fluency", "language", "keywords"}]

LocationItemType ==
  [fields   |-> [city |-> "string", address |-> "string", country |-> "Country",
                 postalCode |-> "string", region |-> "string"],
   optional |-> {"address", "country", "postalCode", "region"},
   computed |-> {"postalCodeAndAddress", "regionAndCountry", "fullAddress"}]

ProfileItem_PlainNetwork ==
  [fields   |-> [network |-> "string", username |-> "string", url |-> "string"],
   optional |-> {"url"},
   computed |-> {"url"}]

ProfileItem ==
  [fields   |-> [network |-> "Network", username |-> "string", url |-> "string"],
   optional |-> {"url"},
   computed |-> {"url"}]

ProjectItem ==
  [fields   |-> [name |-> "string", startDate |-> "string", summary |-> "string",
                 description |-> "string", endDate |-> "string",
                 keywords |-> "Keywords", url |-> "string"],
   optional |-> {"description", "endDate", "keywords", "url"},
   computed |-> {"keywords", "dateRange", "startDate", "endDate", "summary"}]

PublicationItem ==
  [fields   |-> [name |-> "string", publisher |-> "string",
                 releaseDate |-> "string", summary |-> "string", url |-> "string"],
   optional |-> {"releaseDate", "summary", "url"},
   computed |-> {"releaseDate", "summary"}]

ReferenceItem ==
  [fields   |-> [name |-> "string", summary |-> "string", email |-> "string",
                 phone |-> "string", relationship |-> "string"],
   optional |-> {"email", "phone", "relationship"},
   computed |-> {"summary"}]

SkillItem ==
  [fields   |-> [level |-> "Level", name |-> "string", keywords |-> "Keywords"],
   optional |-> {"keywords"},
   computed |-> {"level", "keywords"}]

VolunteerItem ==
  [fields   |-> [organization |-> "string", position |-> "string",
                 startDate |-> "string", summary |-> "string",
                 endDate |-> "string", url |-> "string"],
   optional |-> {"endDate", "url"},
   computed |-> {"dateRange", "startDate", "endDate", "summary"}]

WorkItem ==
  [fields   |-> [name |-> "string", position |-> "string", startDate |-> "string",
                 summary |-> "string", endDate |-> "string",
                 keywords |-> "Keywords", url |-> "string"],
   optional |-> {"endDate", "keywords", "url"},
   computed |-> {"keywords", "dateRange", "startDate", "endDate", "summary"}]

\* (variant: education?: EducationItem[])
ResumeContent_EducationOptional ==
  [fields   |-> [awards |-> "AwardItem[]", basics |-> "BasicsItem",
                 certificates |-> "CertificateItem[]",
                 education |-> "EducationItem[]",
                 interests |-> "InterestItem[]", languages |-> "LanguageItem[]",
                 location |-> "LocationItem", projects |-> "ProjectItem[]",
                 profiles |-> "ProfileItem[]",
                 publications |-> "PublicationItem[]",
                 references |-> "ReferenceItem[]", skills |-> "SkillItem[]",
                 volunteer |-> "VolunteerItem[]", work |-> "WorkItem[]"],
   optional |-> {"awards", "certificates", "education", "interests",
                 "languages", "location", "projects", "profiles",
                 "publications", "references", "skills", "volunteer", "work"},
   computed |-> {"sectionNames", "urls"}]

ResumeContent ==
  [fields   |-> [awards |-> "AwardItem[]", basics |-> "BasicsItem",
                 certificates |-> "CertificateItem[]",
                 education |-> "EducationItem[]",
                 interests |-> "InterestItem[]", languages |-> "LanguageItem[]",
                 location |-> "LocationItem", projects |-> "ProjectItem[]",
                 profiles |-> "ProfileItem[]",
                 publications |-> "PublicationItem[]",
                 references |-> "ReferenceItem[]", skills |-> "SkillItem[]",
                 volunteer |-> "VolunteerItem[]", work |-> "WorkItem[]"],
   optional |-> {"awards", "certificates", "interests", "languages", "location",
                 "projects", "profiles", "publications", "references", "skills",
                 "volunteer", "work"},
   computed |-> {"sectionNames", "urls"}]

ResumeLayoutMargins ==
  [fields   |-> [top |-> "string", bottom |-> "string", left |-> "string",
                 right |-> "string"],
   optional |-> {"top", "bottom", "left", "right"},
   computed |-> {}]

ResumeLayoutTypography ==
  [fields |-> [fontSize |-> "string"], optional |-> {"fontSize"}, computed |-> {}]

\* fontspec?: { numbers?: FontspecNumbers }
ResumeLayoutFontspec ==
  [fields |-> [numbers |-> "FontspecNumbers"], optional |-> {"numbers"},
   computed |-> {}]

ResumeLayoutLaTeX ==
  [fields |-> [fontspec |-> "ResumeLayoutFontspec"], optional |-> {"fontspec"},
   computed |-> {}]

ResumeLayoutLocale ==
  [fields |-> [language |-> "LocaleLanguageOption"], optional |-> {"language"},
   computed |-> {}]

ResumeLayoutPage ==
  [fields |-> [showPageNumbers |-> "boolean"], optional |-> {"showPageNumbers"},
   computed |-> {}]

ResumeLayout ==
  [fields   |-> [template |-> "ResumeTemplate", latex |-> "ResumeLayoutLaTeX",
                 margins |-> "ResumeLayoutMargins",
                 typography |-> "ResumeLayoutTypography",
                 locale |-> "ResumeLayoutLocale", page |-> "ResumeLayoutPage"],
   optional |-> {"template", "latex", "margins", "typography", "locale", "page"},
   computed |-> {}]

Resume ==
  [fields   |-> [content |-> "ResumeContent", layout |-> "ResumeLayout"],
   optional |-> {"layout"},
   computed |-> {}]

\* every object type of the data model, by name
DataModel ==
  [AwardItem |-> AwardItem, BasicsItem |-> BasicsItem,
   CertificateItem |-> CertificateItem, EducationItem |-> EducationItem,
   InterestItem |-> InterestItem, LanguageItem |-> LanguageItem,
   LocationItem |-> LocationItemType, ProfileItem |-> ProfileItem,
   ProjectItem |-> ProjectItem, PublicationItem |-> PublicationItem,
   ReferenceItem |-> ReferenceItem, SkillItem |-> SkillItem,
   VolunteerItem |-> VolunteerItem, WorkItem |-> WorkItem,
   ResumeContent |-> ResumeContent,
   ResumeLayoutMargins |-> ResumeLayoutMargins,
   ResumeLayoutTypography |-> ResumeLayoutTypography,
   ResumeLayoutFontspec |-> ResumeLayoutFontspec,
   ResumeLayoutLaTeX |-> ResumeLayoutLaTeX,
   ResumeLayoutLocale |-> ResumeLayoutLocale,
   ResumeLayoutPage |-> ResumeLayoutPage, ResumeLayout |-> ResumeLayout,
   Resume |-> Resume]

\* the fields of the data model whose type is t
FieldsOfType(t) ==
  {<<T, f>> \in UNION {{<<T, f>> : f \in DOMAIN DataModel[T].fields} :
                         T \in DOMAIN DataModel} :
     Resolve(DataModel[T].fields[f]) = t}

(***************************************************************************)
(* Resume values.                                                          *)
(***************************************************************************)
Arr(seq) == [type |-> "array", items |-> seq]
Bool(b) == [type |-> "boolean", bool |-> b]

\* the array types of ResumeContent and the type of their elements
ArrayTypes ==
  ("AwardItem[]" :> "AwardItem") @@ ("CertificateItem[]" :> "CertificateItem")
    @@ ("EducationItem[]" :> "EducationItem") @@ ("InterestItem[]" :> "InterestItem")
    @@ ("LanguageItem[]" :> "LanguageItem") @@ ("ProjectItem[]" :> "ProjectItem")
    @@ ("ProfileItem[]" :> "ProfileItem") @@ ("PublicationItem[]" :> "PublicationItem")
    @@ ("ReferenceItem[]" :> "ReferenceItem") @@ ("SkillItem[]" :> "SkillItem")
    @@ ("VolunteerItem[]" :> "VolunteerItem") @@ ("WorkItem[]" :> "WorkItem")

\* sets of keys a value of the object type T may have: the required fields
\* and, of the optional ones, none, one, all but one, or all
KeySets(T) ==
  {(DOMAIN T.fields \ T.optional) \cup S :
     S \in {{}, T.optional} \cup {{k} : k \in T.optional}
            \cup {T.optional \ {k} : k \in T.optional}}

\* a value of the type named t, for the field f of the item tagged tag; an
\* object gets all its fields when full, only the required ones otherwise
RECURSIVE ValueOf(_, _, _, _)
ValueOf(t, f, tag, full) ==
  LET r == Resolve(t)
  IN  IF r = "string" THEN Str(f \o "#" \o tag)
      ELSE IF r = "boolean" THEN Bool(TRUE)
      ELSE IF r = "string[]" THEN Arr(<<Str(f \o "#" \o tag), Str(f)>>)
      ELSE IF r \in OptionSetTypes THEN Str(r)
      ELSE IF r \in DOMAIN DataModel
        THEN LET T == DataModel[r]
                 K == IF full THEN DOMAIN T.fields ELSE DOMAIN T.fields \ T.optional
             IN  Obj([g \in K |-> ValueOf(T.fields[g], g, tag, full)])
      ELSE Undefined

ItemTags == <<"1", "2", "3", "4">>

\* a section array of n items, in ascending or descending order of their tags;
\* the items at even positions carry only the required fields
SectionArray(t, n, asc) ==
  Arr([i \in 1..n |-> ValueOf(ArrayTypes[t], "item",
                              ItemTags[IF asc THEN i ELSE n + 1 - i], i % 2 = 1)])

ContentOf(K, n, asc) ==
  Obj([k \in K |->
         LET t == ResumeContent.fields[k]
         IN  IF t \in DOMAIN ArrayTypes THEN SectionArray(t, n, asc)
             ELSE ValueOf(t, k, "1", TRUE)])

\* the Resume values an editor or an import constructs
ResumeCandidates ==
  {Obj([k \in R |-> IF k = "content" THEN ContentOf(K, n, asc)
                    ELSE ValueOf(Resume.fields[k], k, "1", TRUE)]) :
     <<R, K, n, asc>> \in {x \in KeySets(Resume) \X KeySets(ResumeContent)
                                   \X (0..MaxItems) \X BOOLEAN :
                             x[4] \/ x[3] >= 2}}

(***************************************************************************)
(* The transform stage.                                                    *)
(***************************************************************************)
\* the output formats the derived strings are produced for
Formats == {"latex", "markdown"}

\* the derived string of one computed key
Derived(fmt, key) == Str(fmt \o ":" \o key)

\* (variant: the derived values are spread over the item itself)
AttachComputed_Flat(o, values) ==
  Obj([k \in DOMAIN o.props \cup DOMAIN values |->
         IF k \in DOMAIN values THEN values[k] ELSE o.props[k]])

\* the derived values of an object live in its computed sub-object
AttachComputed(o, values) == Obj(SetProp(o.props, "computed", Obj(values)))

\* one item with its computed sub-object attached or overwritten
TransformItem(item, T, fmt) ==
  AttachComputed(item, [c \in T.computed |-> Derived(fmt, c)])

\* one section: its item, or its items one by one in their order
TransformSection(v, t, fmt) ==
  IF t \in DOMAIN ArrayTypes
    THEN Arr([i \in DOMAIN v.items |->
                TransformItem(v.items[i], DataModel[ArrayTypes[t]], fmt)])
    ELSE TransformItem(v, DataModel[t], fmt)

\* the content-level computed values: the names of the sections and the urls
ContentComputed(content, fmt) ==
  [c \in ResumeContent.computed |->
     IF c = "sectionNames"
       THEN Obj([k \in DOMAIN content.props \cap DOMAIN ResumeContent.fields |->
                   Derived(fmt, k)])
       ELSE Derived(fmt, c)]

TransformContent(content, fmt) ==
  AttachComputed(
    Obj([k \in DOMAIN content.props |->
           IF k \in DOMAIN ResumeContent.fields
             THEN TransformSection(content.props[k], ResumeContent.fields[k], fmt)
             ELSE content.props[k]]),
    ContentComputed(content, fmt))

TransformResume(r, fmt) ==
  Obj([k \in DOMAIN r.props |->
         IF k = "content" THEN TransformContent(r.props[k], fmt) ELSE r.props[k]])

\* an editor or an import constructs the Resume value
Construct ==
  /\ resume.type = "undefined"
  /\ resume' \in ResumeCandidates
  /\ passes' = 0
  /\ UNCHANGED <<pc, input, idx, payload, result, prev>>

\* rendering is requested: one transform pass over the resume
TransformPass ==
  /\ resume.type = "object"
  /\ passes < MaxPasses
  /\ \E fmt \in Formats : resume' = TransformResume(resume, fmt)
  /\ passes' = passes + 1
  /\ UNCHANGED <<pc, input, idx, payload, result, prev>>

NextResume ==
  \/ Construct
  \/ TransformPass

SpecResume == Init /\ [][NextResume]_vars

(***************************************************************************)
(* Properties of the data model and of the transform stage.                *)
(***************************************************************************)
Constructed == resume.type = "object"
Content == Get(resume, "content")

\* C11 as stated: in the data model of every Resume value, each option set
\* (country, degree, fluency, language, level, network, locale-language,
\* font-size, fontspec-numbers, section-id, template) is the type of exactly
\* one field.
C11_Original ==
  Constructed => \A t \in OptionSetTypes : Cardinality(FieldsOfType(t)) = 1

\* the option sets that no field of the data model has as its type
UnreferencedOptionSets == {"FontSize", "SectionID"}

\* C11 (amended): no option set is the type of two fields; country, degree,
\* fluency, language, level, network, locale-language, fontspec-numbers and
\* template are each the type of exactly one field; font-size and section-id
\* are the type of no field (typography.fontSize is a plain string).
C11_OptionSetsReferenced ==
  /\ \A t \in OptionSetTypes \ UnreferencedOptionSets :
       Cardinality(FieldsOfType(t)) = 1
  /\ \A t \in UnreferencedOptionSets : FieldsOfType(t) = {}
  /\ FieldsOfType("TemplateOption") = {<<"ResumeLayout", "template">>}
  /\ DataModel["ResumeLayoutTypography"].fields["fontSize"] = "string"
  /\ Constructed =>
       \A k \in DOMAIN resume.props : k \in DOMAIN Resume.fields

C11_Witness ==
  /\ Constructed
  /\ "layout" \in DOMAIN resume.props
  /\ Get(Get(Get(resume, "layout"), "typography"), "fontSize").type = "string"
  /\ Get(Get(resume, "layout"), "template") = Str("TemplateOption")
  /\ DOMAIN Content.props = DOMAIN ResumeContent.fields
  /\ Len(Get(Content, "profiles").items) = MaxItems
  /\ Get(Get(Content, "profiles").items[1], "network") = Str("Network")

\* C12: every Resume value, before and after any transform pass, has content,
\* and its content has basics and education; every other section of the
\* content and the layout are optional, and a Resume without them, without a
\* content-level computed object and without layout is a Resume.
MandatorySections == {"basics", "education"}

C12_MandatorySections ==
  /\ Constructed =>
       /\ "content" \in DOMAIN resume.props
       /\ Content.type = "object"
       /\ MandatorySections \subseteq DOMAIN Content.props
  /\ DOMAIN ResumeContent.fields \ ResumeContent.optional = MandatorySections
  /\ DOMAIN Resume.fields \ Resume.optional = {"content"}

C12_Witness ==
  /\ Constructed
  /\ passes = 0
  /\ DOMAIN resume.props = {"content"}
  /\ DOMAIN Content.props = MandatorySections
  /\ Get(Content, "basics").type = "object"
  /\ Len(Get(Content, "education").items) = MaxItems

\* a value without its computed sub-objects, at every depth
RECURSIVE Base(_)
Base(v) ==
  IF v.type = "object"
    THEN Obj([k \in DOMAIN v.props \ {"computed"} |-> Base(v.props[k])])
  ELSE IF v.type = "array"
    THEN Arr([i \in DOMAIN v.items |-> Base(v.items[i])])
  ELSE v

=============================================================================
